---- MODULE Spec2Model ----
(***************************************************************************)
(* Model of the debug_error crate (src/src/error.rs): the DebugError value *)
(* type, its Display rendering, and the two construction macros            *)
(* debug_error! and debug_error_with_log!, together with the caller-side   *)
(* usage patterns of the examples (logger initialisation, map_err          *)
(* wrapping, propagation, caller logging).                                 *)
(*                                                                         *)
(* Text is modelled by TLA+ strings; \o is string concatenation.           *)
(***************************************************************************)
EXTENDS Integers, Sequences, FiniteSets, TLC

VARIABLES
    logger,     \* ambient `log` state: [installed, max_level]
    records,    \* records handed to the installed logger, in order
    history,    \* Spec: construction invocations that have returned, in order
    held,       \* SpecHolder: DebugError values currently owned by the program
    out,        \* SpecHolder: what the latest operation on a held value returned
    pc,         \* SpecThreads: per-thread position inside a macro expansion
    local,      \* SpecThreads: per-thread locals of the running expansion
    returned    \* SpecThreads: invocations that have returned, in return order

vars == <<logger, records, history, held, out, pc, local, returned>>

----------------------------------------------------------------------------
\* Bounds of the model

\* construction invocations per behaviour of Spec
MaxCalls == 2
\* records written by the caller's own log macros (warn!, error!) in Spec
MaxCallerLogs == 1
\* DebugError values owned at once in SpecHolder
MaxHeld == 2
\* nesting of map_err wrappings in SpecHolder
MaxWraps == 1
\* threads of SpecThreads
NumThreads == 2
\* invocations per behaviour of SpecThreads
MaxInvocations == 2

----------------------------------------------------------------------------
\* Inputs

\* source positions of macro invocations (file, line, column of the
\* outermost macro call, which is what Location::caller() yields inside the
\* expansion)
CallSites ==
    { [file |-> "examples/real_world_scenario.rs", line |-> 25, column |-> 17],
      [file |-> "examples/basic_usage.rs", line |-> 37, column |-> 15] }

\* format arguments: a tagged value per Display implementation
StrArg(s) == [kind |-> "str", s |-> s]
U64Arg(n) == [kind |-> "u64", n |-> n]
LocArg(l) == [kind |-> "loc", l |-> l]
ErrArg(e) == [kind |-> "err", e |-> e]

\* (template, arguments) pairs of plain constructions; a template is a
\* sequence of literal pieces and "{}" placeholders
PlainInputs ==
    { [tpl |-> <<"Database connection timeout">>, args |-> <<>>],
      [tpl |-> <<"User not found with ID: ", "{}">>, args |-> <<U64Arg(0)>>] }

\* (template, arguments) pairs of the map_err wrapping pattern around e
WrapInputs(e) ==
    { [tpl |-> <<"Error in process_user_data for ID ", "{}", ": ", "{}">>,
       args |-> <<U64Arg(123), ErrArg(e)>>] }

\* source positions of the map_err closures that wrap
WrapSites ==
    { [file |-> "examples/real_world_scenario.rs", line |-> 79, column |-> 22],
      [file |-> "examples/real_world_scenario.rs", line |-> 70, column |-> 22] }

\* RUST_LOG settings env_logger::init() may read
LevelFilters == {"OFF", "ERROR", "INFO"}

----------------------------------------------------------------------------
\* Formatting (format!, write!, Display)

Digits == <<"0", "1", "2", "3", "4", "5", "6", "7", "8", "9">>

RECURSIVE u_fmt(_)
\* Display of an unsigned integer: decimal, no padding
u_fmt(n) ==
    IF n < 10 THEN Digits[n + 1]
    ELSE u_fmt(n \div 10) \o Digits[(n % 10) + 1]

RECURSIVE format(_, _)
RECURSIVE Display(_)

\* format!(template, args...): literal pieces verbatim, each "{}" replaced
\* by the Display of the next positional argument, left to right
format(tpl, args) ==
    IF tpl = <<>> THEN ""
    ELSE IF Head(tpl) = "{}"
         THEN Display(Head(args)) \o format(Tail(tpl), Tail(args))
         ELSE Head(tpl) \o format(Tail(tpl), args)

\* Location's Display: "{}:{}:{}" of file, line, column
Location_fmt(l) ==
    format(<<"{}", ":", "{}", ":", "{}">>,
           <<StrArg(l.file), U64Arg(l.line), U64Arg(l.column)>>)

\* variant: the location first, then the message
DebugError_fmt_swapped(self) ==
    format(<<"{}", " at ", "{}">>,
           <<LocArg(self.location), StrArg(self.message)>>)

\* impl Display for DebugError: write!(f, "{} at {}", message, location)
DebugError_fmt(self) ==
    format(<<"{}", " at ", "{}">>,
           <<StrArg(self.message), LocArg(self.location)>>)

Display(a) ==
    CASE a.kind = "str" -> a.s
      [] a.kind = "u64" -> u_fmt(a.n)
      [] a.kind = "loc" -> Location_fmt(a.l)
      [] a.kind = "err" -> DebugError_fmt(a.e)

----------------------------------------------------------------------------
\* DebugError and the log facade

\* DebugError::new: stores both fields verbatim
DebugError_new(message, location) ==
    [message |-> message, location |-> location]

\* variant: the position of the call inside the macro definition
Location_caller_definition(site) ==
    [file |-> "src/error.rs", line |-> 144, column |-> 44]

\* std::panic::Location::caller() inside the macro expansion: the position
\* of the macro invocation
Location_caller(site) == site

\* variant: a clone that is rebuilt at the constructor instead of copied
DebugError_clone_rebuilt(self) ==
    [message |-> self.message,
     location |-> [file |-> "src/error.rs", line |-> 60, column |-> 9]]

\* #[derive(Clone)]
DebugError_clone(self) == self

\* the `?` operator's From::from on the same error type
From_from(e) == e

LevelOrder == <<"OFF", "ERROR", "WARN", "INFO", "DEBUG", "TRACE">>
LevelNum(l) == CHOOSE i \in 1..Len(LevelOrder) : LevelOrder[i] = l

\* a record reaches a logger when one is installed and the global maximum
\* level admits the record's level
log_enabled(lg, level) ==
    lg.installed /\ LevelNum(level) <= LevelNum(lg.max_level)

\* variant: the record is handed over twice
log_twice(lg, recs, level, text, by) ==
    IF lg.installed /\ LevelNum(level) <= LevelNum(lg.max_level)
    THEN recs \o << [level |-> level, text |-> text, by |-> by],
                    [level |-> level, text |-> text, by |-> by] >>
    ELSE recs

\* log::error!/warn!: hands one record to the installed logger, or does
\* nothing
log(lg, recs, level, text, by) ==
    IF log_enabled(lg, level)
    THEN Append(recs, [level |-> level, text |-> text, by |-> by])
    ELSE recs

\* env_logger::init(): installs the logger, sets the maximum level
env_logger_init(lg, filter) == [installed |-> TRUE, max_level |-> filter]

\* variant: the column is left out of the record
log_text_without_column(err) ==
    format(<<"Error: ", "{}", " at ", "{}", ":", "{}">>,
           <<StrArg(err.message), StrArg(err.location.file),
             U64Arg(err.location.line)>>)

\* the text of the record written by debug_error_with_log!
log_text(err) ==
    format(<<"Error: ", "{}", " at ", "{}", ":", "{}", ":", "{}">>,
           <<StrArg(err.message), StrArg(err.location.file),
             U64Arg(err.location.line), U64Arg(err.location.column)>>)

\* variant: the silent macro written as a copy of the logging one
debug_error_logging(site, tpl, args, lg, recs) ==
    LET message == format(tpl, args)
        err == [message |-> message, location |-> site]
    IN  [err |-> err,
         records |-> IF lg.installed
                        /\ LevelNum("ERROR") <= LevelNum(lg.max_level)
                     THEN Append(recs, [level |-> "ERROR",
                                        text |-> "Error: " \o message,
                                        by |-> "debug_error"])
                     ELSE recs]

\* variant: a wrapping construction takes over the location of the error
\* it interpolates
debug_error_inheriting(site, tpl, args, lg, recs) ==
    LET message == format(tpl, args)
        errs == {k \in 1..Len(args) : args[k].kind = "err"}
        location == IF errs = {} THEN site
                    ELSE args[CHOOSE k \in errs : TRUE].e.location
    IN  [err |-> [message |-> message, location |-> location],
         records |-> recs]

\* debug_error!: the value, and the records left as they were
debug_error(site, tpl, args, lg, recs) ==
    LET message == format(tpl, args)
        err == DebugError_new(message, Location_caller(site))
    IN  [err |-> err, records |-> recs]

\* variant: the logged text is kept as the message
debug_error_with_log_prefixed(site, tpl, args, lg, recs) ==
    LET message == "Error: " \o format(tpl, args)
        err == [message |-> message, location |-> site]
    IN  [err |-> err,
         records |-> IF lg.installed
                        /\ LevelNum("ERROR") <= LevelNum(lg.max_level)
                     THEN Append(recs, [level |-> "ERROR", text |-> message,
                                        by |-> "debug_error_with_log"])
                     ELSE recs]

\* variant: construction gives up when no logger is installed
debug_error_with_log_requiring_logger(site, tpl, args, lg, recs) ==
    LET message == format(tpl, args)
        err == [message |-> message, location |-> site]
    IN  IF lg.installed
        THEN [err |-> err,
              records |-> IF LevelNum("ERROR") <= LevelNum(lg.max_level)
                          THEN Append(recs, [level |-> "ERROR",
                                             text |-> "Error: " \o message,
                                             by |-> "debug_error_with_log"])
                          ELSE recs]
        ELSE [err |-> [failed |-> "logger not initialised"],
              records |-> recs]

\* debug_error_with_log!: the value, and the records after the log call
debug_error_with_log(site, tpl, args, lg, recs) ==
    LET message == format(tpl, args)
        err == DebugError_new(message, Location_caller(site))
    IN  [err |-> err,
         records |-> log(lg, recs, "ERROR", log_text(err),
                         "debug_error_with_log")]

Macros == {"debug_error", "debug_error_with_log"}

expand(macro, site, tpl, args, lg, recs) ==
    IF macro = "debug_error"
    THEN debug_error(site, tpl, args, lg, recs)
    ELSE debug_error_with_log(site, tpl, args, lg, recs)

----------------------------------------------------------------------------
\* State before main runs: no logger installed, nothing constructed

Threads == 1..NumThreads

NoLocals == [macro |-> "none"]
NoOutput == [op |-> "none"]

Init ==
    /\ logger = [installed |-> FALSE, max_level |-> "OFF"]
    /\ records = <<>>
    /\ history = <<>>
    /\ held = <<>>
    /\ out = NoOutput
    /\ pc = [t \in Threads |-> "idle"]
    /\ local = [t \in Threads |-> NoLocals]
    /\ returned = <<>>

holderVars == <<held, out>>
threadVars == <<pc, local, returned>>

\* env_logger::init() in main; a second call would panic
InitLogger(filter) ==
    /\ ~logger.installed
    /\ logger' = env_logger_init(logger, filter)
    /\ UNCHANGED <<records, history, holderVars, threadVars>>

----------------------------------------------------------------------------
\* Spec: a single-threaded sequence of macro invocations

\* what is known of an invocation once it has returned
Invocation(macro, site, in, lg, recs, r) ==
    [macro |-> macro, site |-> site, tpl |-> in.tpl, args |-> in.args,
     err |-> r.err, logger |-> lg,
     nrec_before |-> Len(recs), nrec_after |-> Len(r.records)]

\* let err = debug_error!(..)
DebugError(site, in) ==
    /\ Len(history) < MaxCalls
    /\ LET r == debug_error(site, in.tpl, in.args, logger, records)
       IN  /\ records' = r.records
           /\ history' = Append(history, Invocation("debug_error", site, in,
                                                    logger, records, r))
    /\ UNCHANGED <<logger, holderVars, threadVars>>

\* let err = debug_error_with_log!(..)
DebugErrorWithLog(site, in) ==
    /\ Len(history) < MaxCalls
    /\ LET r == debug_error_with_log(site, in.tpl, in.args, logger, records)
       IN  /\ records' = r.records
           /\ history' = Append(history,
                                Invocation("debug_error_with_log", site, in,
                                           logger, records, r))
    /\ UNCHANGED <<logger, holderVars, threadVars>>

CallerRecords(recs) == {k \in 1..Len(recs) : recs[k].by = "caller"}

\* the caller's own error!("Created error: {}", err) on a returned value
\* (DebugError_fmt of the value is what "{}" interpolates)
CallerLog(i, level) ==
    /\ i \in 1..Len(history)
    /\ Cardinality(CallerRecords(records)) < MaxCallerLogs
    /\ records' = log(logger, records, level,
                      format(<<"Created error: ", "{}">>,
                             <<ErrArg(history[i].err)>>), "caller")
    /\ UNCHANGED <<logger, history, holderVars, threadVars>>

Next ==
    \/ \E f \in LevelFilters : InitLogger(f)
    \/ \E s \in CallSites, in \in PlainInputs : DebugError(s, in)
    \/ \E s \in CallSites, in \in PlainInputs : DebugErrorWithLog(s, in)
    \/ \E i \in 1..MaxCalls, l \in {"WARN", "ERROR"} : CallerLog(i, l)

Spec == Init /\ [][Next]_vars

----------------------------------------------------------------------------
\* SpecHolder: what the owner of a DebugError can do with it

NoError == [message |-> "", location |-> [file |-> "", line |-> 0, column |-> 0]]

RemoveAt(s, i) == SubSeq(s, 1, i - 1) \o SubSeq(s, i + 1, Len(s))

\* let err = <macro>!(..): the program keeps the value
Make(macro, site, in) ==
    /\ Len(held) < MaxHeld
    /\ LET r == expand(macro, site, in.tpl, in.args, logger, records)
       IN  /\ records' = r.records
           /\ held' = Append(held, [val |-> r.err, born |-> r.err,
                                    site |-> site, inner |-> NoError,
                                    wraps |-> 0])
    /\ out' = NoOutput
    /\ UNCHANGED <<logger, history, threadVars>>

\* result.map_err(|e| debug_error!("...: {}", .., e)): e is consumed by the
\* closure, the new value takes its place in the result
MapErr(i, site) ==
    /\ i \in 1..Len(held)
    /\ held[i].wraps < MaxWraps
    /\ \E in \in WrapInputs(held[i].val) :
          LET r == debug_error(site, in.tpl, in.args, logger, records)
          IN  /\ records' = r.records
              /\ held' = [held EXCEPT ![i] = [val |-> r.err, born |-> r.err,
                                              site |-> site,
                                              inner |-> held[i].val,
                                              wraps |-> held[i].wraps + 1]]
    /\ out' = NoOutput
    /\ UNCHANGED <<logger, history, threadVars>>

\* err.to_string(), or "{}" of the value in a log macro of the caller
Render(i) ==
    /\ i \in 1..Len(held)
    /\ out' = [op |-> "render", of |-> i, text |-> DebugError_fmt(held[i].val)]
    /\ UNCHANGED <<logger, records, history, held, threadVars>>

\* err.clone()
Clone(i) ==
    /\ i \in 1..Len(held)
    /\ Len(held) < MaxHeld
    /\ held' = Append(held, [held[i] EXCEPT !.val = DebugError_clone(@)])
    /\ out' = NoOutput
    /\ UNCHANGED <<logger, records, history, threadVars>>

\* Err(e)? : the value moves, through From::from, into the caller's result
Propagate(i) ==
    /\ i \in 1..Len(held)
    /\ held' = [held EXCEPT ![i].val = From_from(@)]
    /\ out' = [op |-> "propagate", of |-> i]
    /\ UNCHANGED <<logger, records, history, threadVars>>

\* the owner goes out of scope
Drop(i) ==
    /\ i \in 1..Len(held)
    /\ held' = RemoveAt(held, i)
    /\ out' = NoOutput
    /\ UNCHANGED <<logger, records, history, threadVars>>

NextHolder ==
    \/ \E m \in Macros, s \in CallSites, in \in PlainInputs : Make(m, s, in)
    \/ \E i \in 1..MaxHeld, s \in WrapSites : MapErr(i, s)
    \/ \E i \in 1..MaxHeld : Render(i)
    \/ \E i \in 1..MaxHeld : Clone(i)
    \/ \E i \in 1..MaxHeld : Propagate(i)
    \/ \E i \in 1..MaxHeld : Drop(i)

SpecHolder == Init /\ [][NextHolder]_vars

----------------------------------------------------------------------------
\* SpecThreads: several threads inside macro expansions at once, one
\* statement of the expansion per step

Active == {t \in Threads : pc[t] # "idle"}

\* variant: one message buffer shared by all running expansions
message_of_shared(t, loc) ==
    LET busy == {u \in Threads : loc[u].macro # "none"}
    IN  loc[CHOOSE u \in busy : \A v \in busy : u <= v].message

\* the message local a thread's expansion reads when it builds the value
message_of(t, loc) == loc[t].message

\* the err local a thread's expansion logs and returns
err_of(t, loc) == loc[t].err

\* a thread reaches a macro invocation
Start(t, macro, site, in) ==
    /\ pc[t] = "idle"
    /\ Len(returned) + Cardinality(Active) < MaxInvocations
    /\ pc' = [pc EXCEPT ![t] = "format"]
    /\ local' = [local EXCEPT ![t] = [macro |-> macro, site |-> site,
                                      tpl |-> in.tpl, args |-> in.args,
                                      message |-> "", err |-> NoError,
                                      sink_on |-> FALSE]]
    /\ UNCHANGED <<logger, records, history, holderVars, returned>>

\* let message = format!($($arg)*);
Format(t) ==
    /\ pc[t] = "format"
    /\ local' = [local EXCEPT ![t].message = format(local[t].tpl, local[t].args)]
    /\ pc' = [pc EXCEPT ![t] = "new"]
    /\ UNCHANGED <<logger, records, history, holderVars, returned>>

\* let err = DebugError::new(message, std::panic::Location::caller());
New(t) ==
    /\ pc[t] = "new"
    /\ local' = [local EXCEPT ![t].err =
                     DebugError_new(message_of(t, local),
                                    Location_caller(local[t].site))]
    /\ pc' = [pc EXCEPT ![t] = IF local[t].macro = "debug_error_with_log"
                               THEN "log" ELSE "return"]
    /\ UNCHANGED <<logger, records, history, holderVars, returned>>

\* ::log::error!("Error: {} at {}:{}:{}", ..);
Log(t) ==
    /\ pc[t] = "log"
    /\ records' = log(logger, records, "ERROR", log_text(err_of(t, local)),
                      "debug_error_with_log")
    /\ local' = [local EXCEPT ![t].sink_on = log_enabled(logger, "ERROR")]
    /\ pc' = [pc EXCEPT ![t] = "return"]
    /\ UNCHANGED <<logger, history, holderVars, returned>>

\* err  (the block's value goes back to the caller)
Return(t) ==
    /\ pc[t] = "return"
    /\ returned' = Append(returned,
                          [thread |-> t, macro |-> local[t].macro,
                           site |-> local[t].site, tpl |-> local[t].tpl,
                           args |-> local[t].args, err |-> err_of(t, local),
                           sink_on |-> local[t].sink_on])
    /\ local' = [local EXCEPT ![t] = NoLocals]
    /\ pc' = [pc EXCEPT ![t] = "idle"]
    /\ UNCHANGED <<logger, records, history, holderVars>>

NextThreads ==
    \/ \E f \in LevelFilters : InitLogger(f)
    \/ \E t \in Threads, m \in Macros, s \in CallSites, in \in PlainInputs :
          Start(t, m, s, in)
    \/ \E t \in Threads : Format(t)
    \/ \E t \in Threads : New(t)
    \/ \E t \in Threads : Log(t)
    \/ \E t \in Threads : Return(t)

SpecThreads == Init /\ [][NextThreads]_vars

----------------------------------------------------------------------------
\* Properties

\* the rendered text the specification prescribes, written out with the
\* decimal conversion of the TLC module
Rendered(message, location) ==
    message \o " at " \o location.file \o ":" \o ToString(location.line)
            \o ":" \o ToString(location.column)

Contains(text, part) ==
    \E k \in 1..(Len(text) - Len(part) + 1) :
        SubSeq(text, k, k + Len(part) - 1) = part

Logging(h) == h.macro = "debug_error_with_log"

\* C1: rendering the value built from message m at a location yields exactly
\* m, " at ", file, ":", line, ":", column, in that order and nothing else.
C1_RenderFormat ==
    out.op = "render" =>
        out.text = Rendered(held[out.of].val.message, held[out.of].site)

C1_Witness ==
    /\ out.op = "render"
    /\ out.text = "User not found with ID: 0 at examples/real_world_scenario.rs:25:17"

\* C2 as stated: every invocation of the logging macro has put exactly one
\* record into the sink by the time it returns, so the records number as
\* many as the logging invocations that are past their log call.
C2_OneRecordPerInvocation ==
    Len(records) =
        Cardinality({k \in 1..Len(returned) : Logging(returned[k])})
        + Cardinality({t \in Threads : pc[t] = "return" /\ Logging(local[t])})

\* C2 as amended: the log call is made exactly once, after the value is built
\* and before it is returned, and it puts exactly one error-level record into
\* the sink when a logger is installed whose maximum level admits errors, and
\* none otherwise; the records number as many as the logging invocations
\* whose log call found the sink enabled.
C2_OneRecordWhenEnabled ==
    /\ Len(records) =
          Cardinality({k \in 1..Len(returned) :
                          Logging(returned[k]) /\ returned[k].sink_on})
          + Cardinality({t \in Threads :
                          pc[t] = "return" /\ Logging(local[t])
                          /\ local[t].sink_on})
    /\ \A k \in 1..Len(records) : records[k].level = "ERROR"
    /\ \A t \in Threads :
          pc[t] = "log" => /\ Logging(local[t])
                           /\ local[t].err.location = local[t].site

C2_Witness ==
    \E k, j \in 1..Len(returned) :
        /\ Logging(returned[k]) /\ returned[k].sink_on
        /\ Logging(returned[j]) /\ ~returned[j].sink_on
        /\ Len(records) = 1

\* C3: for the same template, arguments and call site the logging macro
\* returns a value with the same message and location as the silent macro.
C3_SameValue ==
    \A i, j \in 1..Len(history) :
        ( /\ history[i].macro = "debug_error"
          /\ Logging(history[j])
          /\ history[i].site = history[j].site
          /\ history[i].tpl = history[j].tpl
          /\ history[i].args = history[j].args )
        => /\ history[i].err.message = history[j].err.message
           /\ history[i].err.location = history[j].err.location

C3_Witness ==
    \E i, j \in 1..Len(history) :
        /\ history[i].macro = "debug_error"
        /\ Logging(history[j])
        /\ history[i].site = history[j].site
        /\ history[i].tpl = history[j].tpl
        /\ history[i].args = history[j].args
        /\ history[j].nrec_after = history[j].nrec_before + 1

\* C4: an invocation of the silent macro leaves the sink's record sequence
\* as it was, in every sink state and after any earlier invocations.
C4_SilentFrame ==
    [][ ( /\ Len(history') = Len(history) + 1
          /\ history'[Len(history')].macro = "debug_error" )
        => records' = records ]_vars

C4_Witness ==
    \E i \in 1..Len(history) :
        /\ history[i].macro = "debug_error"
        /\ history[i].logger.installed
        /\ history[i].logger.max_level = "ERROR"
        /\ history[i].nrec_before > 0

\* C5: with no logger installed, or one whose level shuts errors out, the
\* logging macro still returns the value with the formatted message and the
\* captured location, and its log call changes nothing; the value is the
\* same in every sink state.
C5_SucceedsWithoutSink ==
    \A i \in 1..Len(history) :
        Logging(history[i]) =>
            /\ history[i].err = [message |-> format(history[i].tpl,
                                                    history[i].args),
                                 location |-> history[i].site]
            /\ ~log_enabled(history[i].logger, "ERROR")
                  => history[i].nrec_after = history[i].nrec_before

C5_Witness ==
    \E i, j \in 1..Len(history) :
        /\ Logging(history[i]) /\ ~history[i].logger.installed
        /\ Logging(history[j]) /\ history[j].logger.installed
        /\ history[j].logger.max_level = "OFF"
        /\ records = <<>>

\* C6: the location stored in a value is the call site of the invocation
\* that made it, so values made at different call sites differ in location,
\* also when their messages are the same.
C6_LocationIsCallSite ==
    /\ \A i \in 1..Len(history) : history[i].err.location = history[i].site
    /\ \A i, j \in 1..Len(history) :
          history[i].site # history[j].site
              => history[i].err.location # history[j].err.location

C6_Witness ==
    \E i, j \in 1..Len(history) :
        /\ history[i].site # history[j].site
        /\ history[i].err.message = history[j].err.message

\* C7: the message and location of a value stay what they were at
\* construction under render, move, clone, propagation and wrapping of
\* other values.
C7_Immutable ==
    \A i \in 1..Len(held) : held[i].val = held[i].born

C7_Witness ==
    /\ Len(held) = 2
    /\ held[1].born = held[2].born
    /\ held[1].site = held[2].site
    /\ out.op = "propagate"

\* C8: the record the logging macro writes is at error level and its text is
\* "Error: ", message, " at ", file, ":", line, ":", column, of the value the
\* invocation returns.
C8_RecordText ==
    \A i \in 1..Len(history) :
        (Logging(history[i]) /\ log_enabled(history[i].logger, "ERROR")) =>
            /\ history[i].nrec_after = history[i].nrec_before + 1
            /\ history[i].nrec_after <= Len(records)
            /\ records[history[i].nrec_after].level = "ERROR"
            /\ records[history[i].nrec_after].text =
                  "Error: " \o history[i].err.message \o " at "
                  \o history[i].err.location.file \o ":"
                  \o ToString(history[i].err.location.line) \o ":"
                  \o ToString(history[i].err.location.column)

C8_Witness ==
    \E i \in 1..Len(history) :
        /\ Logging(history[i])
        /\ history[i].logger.max_level = "INFO"
        /\ records[history[i].nrec_after].text =
              "Error: Database connection timeout at examples/basic_usage.rs:37:15"

\* C9: a value made by wrapping e in a new template has a message that
\* contains the whole rendered text of e, has the wrapping call site as its
\* location (not the location of e), and has no field that refers to e.
C9_WrapKeepsTextOnly ==
    \A i \in 1..Len(held) :
        held[i].wraps > 0 =>
            /\ Contains(held[i].val.message,
                        Rendered(held[i].inner.message, held[i].inner.location))
            /\ held[i].val.location = held[i].site
            /\ held[i].site # held[i].inner.location
                  => held[i].val.location # held[i].inner.location
            /\ DOMAIN held[i].val = {"message", "location"}

C9_Witness ==
    \E i \in 1..Len(held) :
        /\ held[i].wraps > 0
        /\ held[i].site # held[i].inner.location
        /\ held[i].val.message =
              "Error in process_user_data for ID 123: User not found with ID: 0 at examples/real_world_scenario.rs:25:17"

\* what an invocation must produce from its own inputs
OwnValue(x) == [message |-> format(x.tpl, x.args), location |-> x.site]

\* the logging invocations that are past their log call and whose record
\* would have text T; with needOn, only those that found the sink enabled
LoggedCount(T, needOn) ==
    Cardinality({k \in 1..Len(returned) :
                    /\ Logging(returned[k])
                    /\ needOn => returned[k].sink_on
                    /\ log_text(returned[k].err) = T})
    + Cardinality({t \in Threads :
                    /\ pc[t] = "return" /\ Logging(local[t])
                    /\ needOn => local[t].sink_on
                    /\ log_text(local[t].err) = T})

RecordCount(T) == Cardinality({k \in 1..Len(records) : records[k].text = T})

Texts ==
    {records[k].text : k \in 1..Len(records)}
    \cup {log_text(returned[k].err) :
             k \in {j \in 1..Len(returned) : Logging(returned[j])}}
    \cup {log_text(local[t].err) :
             t \in {u \in Threads : pc[u] = "return" /\ Logging(local[u])}}

\* C10 as stated: under every interleaving each invocation returns the value
\* its own template, arguments and call site determine, and the sink gets
\* exactly one record for every logging invocation.
C10_IndependentOneRecordEach ==
    /\ \A k \in 1..Len(returned) : returned[k].err = OwnValue(returned[k])
    /\ \A T \in Texts : RecordCount(T) = LoggedCount(T, FALSE)

\* C10 as amended: under every interleaving each invocation returns the
\* value its own template, arguments and call site determine, and the sink
\* gets exactly one record for every logging invocation whose log call finds
\* a logger installed with errors admitted, and none for the others.
C10_Independent ==
    /\ \A k \in 1..Len(returned) : returned[k].err = OwnValue(returned[k])
    /\ \A t \in Threads :
          pc[t] \in {"log", "return"} => local[t].err = OwnValue(local[t])
    /\ \A T \in Texts : RecordCount(T) = LoggedCount(T, TRUE)

C10_Witness ==
    \E t, u \in Threads :
        /\ t # u
        /\ pc[t] = "return" /\ pc[u] = "return"
        /\ Logging(local[t]) /\ Logging(local[u])
        /\ local[t].sink_on /\ ~local[u].sink_on
        /\ local[t].err.message # local[u].err.message

====
